---- MODULE Spec2Model ----
(***************************************************************************)
(* Model of src/index.py: the dialogue-to-audio pipeline                   *)
(*   parse_text_content -> synthesize_dialogue -> combine_wav_files        *)
(* driven by the Flask route synthesize() (POST /synthesize).              *)
(*                                                                         *)
(* Text.  A string is a sequence of characters.  The literals the code's   *)
(* regular expressions look for are single characters of the model, written*)
(* in ASCII:                                                               *)
(*     "[dansei]" = the speaker tag for the male label   (line 188)        *)
(*     "[josei]"  = the speaker tag for the female label (line 188)        *)
(*     "sokudo:"  = the speed directive prefix           (line 204)        *)
(*     "pitch:"   = the pitch directive prefix           (line 209)        *)
(*     "serifu:"  = the line-marker prefix of clean_text (line 30)         *)
(*     " " whitespace, "NL" the newline, "0".."9", ".", "-", other letters *)
(*                                                                         *)
(* Numbers.  A Python float is kept as a fixed-point integer in hundredths *)
(* (1.0 is 100, 0.25 is 25, -20.0 is -2000); every literal of the bounded  *)
(* inputs has at most two fractional digits, so the conversion is exact.   *)
(***************************************************************************)
EXTENDS Integers, Sequences, FiniteSets, TLC

VARIABLES
    text_content,   \* the script text handed to parse_text_content
    parsed,         \* what parse_text_content did: lines returned or exception
    wav_files,      \* argument of a direct combine_wav_files call (clips read)
    combined,       \* what that combine_wav_files call did
    pc,             \* stage of the pipeline invocation
    entry,          \* "route" (POST /synthesize) or "direct" (synthesize_dialogue)
    lines,          \* the lines given to synthesize_dialogue
    voice_map,      \* the voice_map argument of synthesize_dialogue
    idx,            \* loop index of synthesize_dialogue (1-based)
    temp_files,     \* synthesize_dialogue's temp_files list
    fs,             \* the filesystem: path -> file content
    clock,          \* wall clock in milliseconds
    outcome,        \* what the invocation returned
    dispatched,     \* log of backend calls: <<line index, request, succeeded>>
    handed,         \* log of combine_wav_files calls: the clips it read
    calls,          \* number of earlier synthesize_dialogue calls of the process
    artifacts       \* the artifacts those calls returned: path and content

vars == << text_content, parsed, wav_files, combined, pc, entry, lines,
           voice_map, idx, temp_files, fs, clock, outcome, dispatched, handed, calls, artifacts >>

None == "None"

(***************************************************************************)
(* Bounds of the model.                                                    *)
(***************************************************************************)
MaxLines == 4       \* lines of a script text
MaxClips == 3       \* clips in a direct combine_wav_files call
MaxDialogue == 3    \* lines in a direct synthesize_dialogue call

(***************************************************************************)
(* Module-level names of index.py.  VOICE_ID_man and VOICE_ID_woman are    *)
(* assigned at lines 25-26; the code reads VOICE_ID_TSUKUYOMI (lines 132,  *)
(* 191, 218, 259), which no line of the module assigns.  Reading a global  *)
(* that is not bound raises NameError.                                     *)
(***************************************************************************)
VOICE_ID_man == 0
VOICE_ID_woman == 1

ModuleGlobals ==
    [ n \in {"VOICE_ID_man", "VOICE_ID_woman"} |->
        IF n = "VOICE_ID_man" THEN VOICE_ID_man ELSE VOICE_ID_woman ]

\* Evaluation of a global name: its value, or the NameError it raises.
LoadGlobal(name) ==
    IF name \in DOMAIN ModuleGlobals
    THEN [ok |-> TRUE, value |-> ModuleGlobals[name]]
    ELSE [ok |-> FALSE, exc |-> "NameError"]

(***************************************************************************)
(* String helpers.                                                         *)
(***************************************************************************)
Digits == {"0", "1", "2", "3", "4", "5", "6", "7", "8", "9"}

DigitValue(c) ==
    CASE c = "0" -> 0 [] c = "1" -> 1 [] c = "2" -> 2 [] c = "3" -> 3
      [] c = "4" -> 4 [] c = "5" -> 5 [] c = "6" -> 6 [] c = "7" -> 7
      [] c = "8" -> 8 [] c = "9" -> 9

IsSpace(c) == c \in {" ", "NL"}

Drop(s, n) == SubSeq(s, n + 1, Len(s))

RECURSIVE LStrip(_)
LStrip(s) == IF s # <<>> /\ IsSpace(Head(s)) THEN LStrip(Tail(s)) ELSE s

RECURSIVE RStrip(_)
RStrip(s) ==
    IF s # <<>> /\ IsSpace(s[Len(s)]) THEN RStrip(SubSeq(s, 1, Len(s) - 1)) ELSE s

\* str.strip()
Strip(s) == RStrip(LStrip(s))

\* The longest prefix of s made of characters of cls (a greedy [cls]* match).
RECURSIVE TakeWhile(_, _)
TakeWhile(s, cls) ==
    IF s # <<>> /\ Head(s) \in cls
    THEN <<Head(s)>> \o TakeWhile(Tail(s), cls)
    ELSE <<>>

\* str.splitlines(): cut at every newline; no empty piece after a final one.
RECURSIVE splitlines(_)
splitlines(s) ==
    IF s = <<>> THEN <<>>
    ELSE LET first == TakeWhile(s, { s[i] : i \in 1..Len(s) } \ {"NL"})
             rest  == Drop(s, Len(first))
         IN  IF rest = <<>> THEN <<first>>
             ELSE <<first>> \o splitlines(Tail(rest))

\* sep.join(parts)
RECURSIVE Join(_, _)
Join(sep, parts) ==
    IF parts = <<>> THEN <<>>
    ELSE IF Len(parts) = 1 THEN parts[1]
    ELSE parts[1] \o sep \o Join(sep, Tail(parts))

RECURSIVE Count(_, _)
Count(s, cls) ==
    IF s = <<>> THEN 0
    ELSE (IF Head(s) \in cls THEN 1 ELSE 0) + Count(Tail(s), cls)

RECURSIVE DigitsValue(_)
DigitsValue(s) ==
    IF s = <<>> THEN 0
    ELSE DigitsValue(SubSeq(s, 1, Len(s) - 1)) * 10 + DigitValue(s[Len(s)])

(***************************************************************************)
(* float(s) for a string of the characters the directive regexes capture   *)
(* ([\d.]+ and [-\d.]+).  Python accepts an optional leading sign followed *)
(* by digits with at most one point and at least one digit; anything else  *)
(* raises ValueError.  The value is in hundredths.                         *)
(***************************************************************************)
FloatBody(s) == IF s # <<>> /\ Head(s) = "-" THEN Tail(s) ELSE s

FloatOk(s) ==
    LET b == FloatBody(s)
    IN  /\ Count(b, {"-"}) = 0
        /\ Count(b, {"."}) <= 1
        /\ Count(b, Digits) >= 1

FloatValue(s) ==
    LET b     == FloatBody(s)
        whole == TakeWhile(b, Digits)
        frac  == IF Len(whole) < Len(b) THEN Drop(b, Len(whole) + 1) ELSE <<>>
        f2    == SubSeq(frac \o <<"0", "0">>, 1, 2)
        mag   == DigitsValue(whole) * 100 + DigitsValue(f2)
    IN  IF s # <<>> /\ Head(s) = "-" THEN 0 - mag ELSE mag

float(s) ==
    IF FloatOk(s) THEN [ok |-> TRUE, value |-> FloatValue(s)]
    ELSE [ok |-> FALSE, exc |-> "ValueError"]

(***************************************************************************)
(* The regular expressions of parse_text_content, matched with re.match    *)
(* (anchored at the start of the stripped line).                           *)
(***************************************************************************)
\* re.match(r'\[(male|female)\]', text): the label matched, or None.
speaker_match(text) ==
    IF text # <<>> /\ Head(text) = "[dansei]" THEN "dansei"
    ELSE IF text # <<>> /\ Head(text) = "[josei]" THEN "josei"
    ELSE None

\* re.match(prefix + r'\s*([cls]+)', text): whether it matched, and group 1.
DirectiveMatch(text, prefix, cls) ==
    IF text = <<>> \/ Head(text) # prefix THEN [matched |-> FALSE, group |-> <<>>]
    ELSE LET grp == TakeWhile(LStrip(Tail(text)), cls)
         IN  [matched |-> grp # <<>>, group |-> grp]

speed_match(text) == DirectiveMatch(text, "sokudo:", Digits \cup {"."})

pitch_match(text) == DirectiveMatch(text, "pitch:", Digits \cup {".", "-"})

(***************************************************************************)
(* parse_text_content (lines 176-226).  The locals of the function are a   *)
(* record; exc is the exception that ended the call, None while it runs.   *)
(***************************************************************************)
DefaultSpeed == 100     \* current_speed = 1.0
DefaultPitch == 0       \* current_pitch = 0.0

ParseStart ==
    [ lines           |-> <<>>,
      current_speaker |-> None,
      current_text    |-> <<>>,
      current_speed   |-> DefaultSpeed,
      current_pitch   |-> DefaultPitch,
      exc             |-> None ]

\* speaker_id = VOICE_ID_man if current_speaker == male else VOICE_ID_TSUKUYOMI
SpeakerId(current_speaker) ==
    IF current_speaker = "dansei" THEN LoadGlobal("VOICE_ID_man")
    ELSE LoadGlobal("VOICE_ID_TSUKUYOMI")

\* The flush of the open block (lines 190-198 and 217-224).
FlushBlock(st) ==
    IF st.current_speaker # None /\ st.current_text # <<>>
    THEN LET sid == SpeakerId(st.current_speaker)
         IN  IF ~sid.ok THEN [st EXCEPT !.exc = sid.exc]
             ELSE [st EXCEPT !.lines = Append(@,
                       [ text  |-> Join(<<" ">>, st.current_text),
                         id    |-> sid.value,
                         pitch |-> st.current_pitch,
                         speed |-> st.current_speed ])]
    ELSE st

\* OpenBlock without lines 200-201: the parameters of the block before stay.
OpenBlock_KeepsParams(st, label) ==
    LET f == FlushBlock(st)
    IN  IF f.exc # None THEN f
        ELSE [f EXCEPT !.current_text    = IF st.current_speaker # None
                                               /\ st.current_text # <<>>
                                            THEN <<>> ELSE @,
                       !.current_speaker = label]

\* A speaker tag: flush, clear the text, open the block (lines 190-202).
OpenBlock(st, label) ==
    LET f == FlushBlock(st)
    IN  IF f.exc # None THEN f
        ELSE [f EXCEPT !.current_text    = IF st.current_speaker # None
                                               /\ st.current_text # <<>>
                                            THEN <<>> ELSE @,
                       !.current_speaker = label,
                       !.current_speed   = DefaultSpeed,
                       !.current_pitch   = DefaultPitch]

\* A speed directive (lines 205-207).
SetSpeed(st, group) ==
    LET v == float(group)
    IN  IF v.ok THEN [st EXCEPT !.current_speed = v.value]
        ELSE [st EXCEPT !.exc = v.exc]

\* A pitch directive (lines 210-212).
SetPitch(st, group) ==
    LET v == float(group)
    IN  IF v.ok THEN [st EXCEPT !.current_pitch = v.value]
        ELSE [st EXCEPT !.exc = v.exc]

\* Any other line (lines 214-215).
AddBody(st, text) ==
    IF st.current_speaker # None
    THEN [st EXCEPT !.current_text = Append(@, text)]
    ELSE st

\* ParseLine without the continue of line 207: a speed directive sets the
\* speed and falls through to the body branch.
ParseLine_SpeedFallsThrough(st, raw) ==
    LET text == Strip(raw)
    IN  IF text = <<>> THEN st
        ELSE IF speaker_match(text) # None THEN OpenBlock(st, speaker_match(text))
        ELSE IF speed_match(text).matched
        THEN LET set == SetSpeed(st, speed_match(text).group)
             IN  IF set.exc # None THEN set ELSE AddBody(set, text)
        ELSE IF pitch_match(text).matched THEN SetPitch(st, pitch_match(text).group)
        ELSE AddBody(st, text)

\* One iteration of the loop over text_content.splitlines() (lines 184-215).
ParseLine(st, raw) ==
    LET text == Strip(raw)
    IN  IF text = <<>> THEN st
        ELSE IF speaker_match(text) # None THEN OpenBlock(st, speaker_match(text))
        ELSE IF speed_match(text).matched THEN SetSpeed(st, speed_match(text).group)
        ELSE IF pitch_match(text).matched THEN SetPitch(st, pitch_match(text).group)
        ELSE AddBody(st, text)

RECURSIVE ParseLoop(_, _)
ParseLoop(st, raws) ==
    IF raws = <<>> \/ st.exc # None THEN st
    ELSE ParseLoop(ParseLine(st, Head(raws)), Tail(raws))

\* The call on the list of raw lines.
ParseLines(raws) ==
    LET st == ParseLoop(ParseStart, raws)
        f  == IF st.exc # None THEN st ELSE FlushBlock(st)
    IN  IF f.exc # None THEN [ok |-> FALSE, exc |-> f.exc, lines |-> <<>>]
        ELSE [ok |-> TRUE, exc |-> None, lines |-> f.lines]

parse_text_content(text) == ParseLines(splitlines(text))

(***************************************************************************)
(* WAV files.  A file is its header parameters and its data, a sequence of *)
(* chunks [silent, audio, nbytes]: audio names the samples (the request a  *)
(* clip was synthesized for) and silent marks zero bytes.  wav is FALSE    *)
(* for a file wave.open() rejects.                                         *)
(***************************************************************************)
RECURSIVE DataBytes(_)
DataBytes(data) ==
    IF data = <<>> THEN 0 ELSE Head(data).nbytes + DataBytes(Tail(data))

\* Wave_read.getnframes(): the data size over the frame size.
getnframes(file) == DataBytes(file.data) \div (file.nchannels * file.sampwidth)

WavFile(nchannels, sampwidth, framerate, nframes, audio) ==
    [ wav       |-> TRUE,
      nchannels |-> nchannels,
      sampwidth |-> sampwidth,
      framerate |-> framerate,
      data      |-> << [ silent |-> FALSE,
                         audio  |-> audio,
                         nbytes |-> nframes * nchannels * sampwidth ] >> ]

NotWav ==
    [wav |-> FALSE, nchannels |-> 0, sampwidth |-> 0, framerate |-> 0, data |-> <<>>]

NoFile == [written |-> FALSE, file |-> NotWav]

(***************************************************************************)
(* combine_wav_files (lines 45-66), as a function of the files the paths   *)
(* name.  disk is the environment's answer to the writes: "ok", or         *)
(* "enospc" when the first writeframes() raises OSError.  The result says  *)
(* whether the call returned or raised, and what it left at output_path.   *)
(***************************************************************************)
SilenceDuration == 50       \* silence_duration = 0.5

\* The silence between two files (lines 63-66), in the first file's format.
Silence(first) ==
    LET silence_frames == (SilenceDuration * first.framerate) \div 100
    IN  [ silent |-> TRUE,
          audio  |-> "silence",
          nbytes |-> silence_frames * first.nchannels * first.sampwidth ]

\* SilenceAfter without the test of line 62: silence follows every file.
SilenceAfter_Every(i, n) == TRUE

\* Whether file i of n is followed by silence (line 62).
SilenceAfter(i, n) == i # n

\* The data written for files i..n of the list, up to the first file that
\* wave.open() rejects (lines 57-66).
RECURSIVE WriteFrom(_, _, _)
WriteFrom(files, i, first) ==
    IF i > Len(files) \/ ~files[i].wav THEN <<>>
    ELSE files[i].data
           \o (IF SilenceAfter(i, Len(files)) THEN <<Silence(first)>> ELSE <<>>)
           \o WriteFrom(files, i + 1, first)

AllWav(files) == \A i \in 1..Len(files) : files[i].wav

combine_wav_files(files, disk) ==
    IF files = <<>> THEN [ok |-> FALSE, exc |-> "ValueError", out |-> NoFile]
    ELSE IF ~files[1].wav THEN [ok |-> FALSE, exc |-> "wave.Error", out |-> NoFile]
    ELSE LET first  == files[1]
             header == [ wav       |-> TRUE,
                         nchannels |-> first.nchannels,
                         sampwidth |-> first.sampwidth,
                         framerate |-> first.framerate,
                         data      |-> <<>> ]
         IN  IF disk = "enospc"
             THEN [ ok |-> FALSE, exc |-> "OSError",
                    out |-> [written |-> TRUE, file |-> header] ]
             ELSE [ ok  |-> AllWav(files),
                    exc |-> IF AllWav(files) THEN None ELSE "wave.Error",
                    out |-> [ written |-> TRUE,
                              file |-> [header EXCEPT
                                          !.data = WriteFrom(files, 1, first)] ] ]

(***************************************************************************)
(* clean_text (lines 28-31): drop a leading line marker and the whitespace *)
(* after it, then strip.                                                   *)
(***************************************************************************)
clean_text(text) ==
    IF text # <<>> /\ Head(text) = "serifu:"
    THEN Strip(LStrip(Tail(text)))
    ELSE Strip(text)

(***************************************************************************)
(* validate_synthesis_params (lines 106-122).                              *)
(***************************************************************************)
MinSpeed == 25          \* 0.25
MaxSpeed == 400         \* 4.0
MinPitch == -2000       \* -20.0
MaxPitch == 2000        \* 20.0

\* The range adjustment without its upper test.
Clamp_LowerOnly(v, lo, hi) == IF v < lo THEN lo ELSE v

\* if v < lo: v = lo; if v > hi: v = hi
Clamp(v, lo, hi) ==
    LET a == IF v < lo THEN lo ELSE v
    IN  IF a > hi THEN hi ELSE a

validate_synthesis_params(params) ==
    [ speed |-> Clamp(params.speed, MinSpeed, MaxSpeed),
      pitch |-> Clamp(params.pitch, MinPitch, MaxPitch) ]

\* dict.get(key, default) on a line record
Get(line, key, default) == IF key \in DOMAIN line THEN line[key] ELSE default

(***************************************************************************)
(* Voice maps.  A dict is the sequence of its <<key, value>> items in      *)
(* insertion order; given is FALSE for voice_map=None.                     *)
(***************************************************************************)
NoVoiceMap == [given |-> FALSE, items |-> <<>>]

VoiceMapOf(items) == [given |-> TRUE, items |-> items]

HasKey(items, k) == \E i \in 1..Len(items) : items[i][1] = k

ValueOf(items, k) ==
    items[CHOOSE i \in 1..Len(items) : items[i][1] = k][2]

\* voice_map.get(speaker_id, list(voice_map.values())[0])  (line 145).
\* Python evaluates the default before the call, so an empty map raises
\* IndexError whether or not the key is present.
VoiceLookup(items, speaker_id) ==
    IF items = <<>> THEN [ok |-> FALSE, exc |-> "IndexError", voice |-> None]
    ELSE [ ok    |-> TRUE,
           exc   |-> None,
           voice |-> IF HasKey(items, speaker_id)
                     THEN ValueOf(items, speaker_id)
                     ELSE items[1][2] ]

\* The voice_map the route builds (lines 257-260): both key expressions are
\* evaluated, in order, and the first unbound name raises.
RouteVoiceMap ==
    LET man == LoadGlobal("VOICE_ID_man")
        tsu == LoadGlobal("VOICE_ID_TSUKUYOMI")
    IN  IF ~man.ok THEN [ok |-> FALSE, exc |-> man.exc, map |-> NoVoiceMap]
        ELSE IF ~tsu.ok THEN [ok |-> FALSE, exc |-> tsu.exc, map |-> NoVoiceMap]
        ELSE [ ok  |-> TRUE,
               exc |-> None,
               map |-> VoiceMapOf(<< <<man.value, "ja-JP-Wavenet-A">>,
                                     <<tsu.value, "ja-JP-Wavenet-B">> >>) ]

\* The default voice_map of synthesize_dialogue (lines 129-133).
DefaultVoiceMap == RouteVoiceMap

(***************************************************************************)
(* The filesystem: a set of [path, content] entries, one per path.         *)
(* generate_filename (lines 41-43) stamps the output name with the second, *)
(* synthesize_text_with_google (line 101) the clip name with the           *)
(* millisecond.                                                            *)
(***************************************************************************)
MsPerSecond == 1000

TempPath(now) == [dir |-> "cwd", name |-> "temp_google", stamp |-> now]

generate_filename(now) ==
    [dir |-> "audio_output", name |-> "voice_dialogue", stamp |-> now \div MsPerSecond]

Exists(files, p) == \E e \in files : e.path = p

ReadFile(files, p) ==
    IF Exists(files, p) THEN (CHOOSE e \in files : e.path = p).content ELSE NotWav

RemoveFile(files, p) == { e \in files : e.path # p }

WriteFile(files, p, c) == RemoveFile(files, p) \cup {[path |-> p, content |-> c]}

RECURSIVE RemoveAll(_, _)
RemoveAll(files, ps) ==
    IF ps = <<>> THEN files ELSE RemoveAll(RemoveFile(files, Head(ps)), Tail(ps))

OutputFiles(files) == { e \in files : e.path.dir = "audio_output" }

TempFiles(files) == { e \in files : e.path.dir = "cwd" }

(***************************************************************************)
(* synthesize_text_with_google (lines 68-104).  The audio the service      *)
(* returns is named by the request; it is LINEAR16 mono at                 *)
(* OUTPUT_SAMPLING_RATE, one frame per character of the text.              *)
(***************************************************************************)
OUTPUT_SAMPLING_RATE == 44100

Request(text, voice_name, speaking_rate, pitch) ==
    [text |-> text, voice |-> voice_name, rate |-> speaking_rate, pitch |-> pitch]

ResponseAudio(request) ==
    WavFile(1, 2, OUTPUT_SAMPLING_RATE, Len(request.text), request)

(***************************************************************************)
(* Outcomes.  error is None or [tag, exc]: the message the code returns    *)
(*   "FileNotFound"    line 249        "NoData"      line 254              *)
(*   "SynthesisFailed" line 160        "Unexpected"  line 269 (exc caught) *)
(*   "Raised"          an exception that leaves synthesize_dialogue when   *)
(*                     it is called directly                               *)
(***************************************************************************)
Err(tag, exc) == [tag |-> tag, exc |-> exc]

NoError == Err(None, None)

(***************************************************************************)
(* The script texts of the model: up to MaxLines raw lines joined by       *)
(* newlines.  The raw lines cover every branch of the loop: blank, both    *)
(* speaker tags, a speed and a pitch directive with a value float()        *)
(* accepts, one each with a value the regex captures and float() rejects   *)
(* ("1.2.3", "-"), a line that starts with the speed prefix and has no     *)
(* number, and body lines (padded with whitespace, with the line marker).  *)
(***************************************************************************)
RawLines ==
    { <<>>,
      <<"[dansei]">>,
      <<"[josei]">>,
      <<"sokudo:", " ", "1", ".", "5">>,
      <<"sokudo:", "1", ".", "2", ".", "3">>,
      <<"sokudo:", " ", "x">>,
      <<"pitch:", " ", "-", "2">>,
      <<"pitch:", " ", "-">>,
      <<" ", "x", " ">>,
      <<"serifu:", " ", "y">> }

Docs == UNION { [1..n -> RawLines] : n \in 0..MaxLines }

Texts == { Join(<<"NL">>, d) : d \in Docs }

(***************************************************************************)
(* The pipeline at rest, and the two function-level calls at rest.         *)
(***************************************************************************)
NoPath == [dir |-> None, name |-> None, stamp |-> 0]

NoOutcome == [path |-> NoPath, error |-> NoError]

\* combine_wav_files has not been called.
NotCombined == [ok |-> FALSE, exc |-> "NotCalled", out |-> NoFile]

\* parse_text_content has not been called.
NotParsed == [ok |-> FALSE, exc |-> "NotCalled", lines |-> <<>>]

PipelineIdle ==
    /\ pc = "Idle"
    /\ entry = "none"
    /\ lines = <<>>
    /\ voice_map = NoVoiceMap
    /\ idx = 0
    /\ temp_files = <<>>
    /\ fs = {}
    /\ clock = 0
    /\ outcome = NoOutcome
    /\ dispatched = <<>>
    /\ handed = <<>>
    /\ calls = 0
    /\ artifacts = {}

\* What only the return to the caller changes.
server_vars == << calls, artifacts >>

pipeline_vars ==
    << pc, entry, lines, voice_map, idx, temp_files, fs, clock, outcome,
       dispatched, handed >>

(***************************************************************************)
(* SpecParse: parse_text_content as a function of its argument.            *)
(***************************************************************************)
InitParse ==
    /\ text_content \in Texts
    /\ parsed = NotParsed
    /\ wav_files = <<>>
    /\ combined = NotCombined
    /\ PipelineIdle

ParseCall ==
    /\ parsed = NotParsed
    /\ parsed' = parse_text_content(text_content)
    /\ UNCHANGED << text_content, wav_files, combined, pipeline_vars, server_vars >>

NextParse == ParseCall

SpecParse == InitParse /\ [][NextParse]_vars

(***************************************************************************)
(* SpecCombine: combine_wav_files as a function of the files it is given.  *)
(* The files differ in length, channel count, sample width and frame rate  *)
(* (11025 Hz is odd, so half a second is not a whole number of frames).    *)
(***************************************************************************)
ClipSet ==
    { WavFile(1, 2, 44100, 3, "a"),
      WavFile(1, 2, 44100, 5, "b"),
      WavFile(2, 2, 44100, 2, "c"),
      WavFile(1, 1, 44100, 4, "d"),
      WavFile(1, 2, 11025, 2, "e"),
      NotWav }

ClipLists == UNION { [1..n -> ClipSet] : n \in 0..MaxClips }

InitCombine ==
    /\ text_content = <<>>
    /\ parsed = NotParsed
    /\ wav_files \in ClipLists
    /\ combined = NotCombined
    /\ PipelineIdle

CombineCall ==
    /\ combined = NotCombined
    /\ \E disk \in {"ok", "enospc"} :
           combined' = combine_wav_files(wav_files, disk)
    /\ UNCHANGED << text_content, parsed, wav_files, pipeline_vars, server_vars >>

NextCombine == CombineCall

SpecCombine == InitCombine /\ [][NextCombine]_vars

(***************************************************************************)
(* Spec: one invocation of the pipeline, entered through the route         *)
(* synthesize() (lines 243-269) or by calling synthesize_dialogue          *)
(* (lines 124-174) with lines and a voice map of the caller.               *)
(***************************************************************************)
DialogueLines ==
    { [text |-> <<"x">>, id |-> 0, speed |-> 100, pitch |-> 0],
      [text |-> <<"serifu:", " ", "y">>, id |-> 1, speed |-> 500, pitch |-> -3000],
      [text |-> <<"serifu:", " ">>, id |-> 0, speed |-> 100, pitch |-> 0],
      [text |-> <<"x", "x">>, id |-> 2, speed |-> 10, pitch |-> 3000],
      [text |-> <<"y">>] }

Dialogues == UNION { [1..n -> DialogueLines] : n \in 0..MaxDialogue }

VoiceMaps ==
    { NoVoiceMap,
      VoiceMapOf(<<>>),
      VoiceMapOf(<< <<0, "ja-JP-Wavenet-A">>, <<1, "ja-JP-Wavenet-B">> >>),
      VoiceMapOf(<< <<1, "ja-JP-Wavenet-C">> >>) }

Init ==
    /\ text_content = <<>>
    /\ parsed = NotParsed
    /\ wav_files = <<>>
    /\ combined = NotCombined
    /\ PipelineIdle

function_vars == << wav_files, combined >>

\* "if not lines" without its test: the route goes on with an empty list.
NoLines_Never(ls) == FALSE

\* if not lines (line 253)
NoLines(ls) == ls = <<>>

\* "if not temp_files" without its test: the merge is always reached.
NothingSynthesized_Never(tf) == FALSE

\* if not temp_files (line 159)
NothingSynthesized(tf) == tf = <<>>

\* An exception ends the invocation: the route catches it (lines 266-269),
\* a direct caller of synthesize_dialogue receives it.
Fail(exc) ==
    /\ pc' = "Failed"
    /\ outcome' = [ path  |-> NoPath,
                    error |-> Err(IF entry = "route" THEN "Unexpected" ELSE "Raised",
                                  exc) ]

\* synthesize(): text.txt does not exist (lines 248-249).
RouteNoFile ==
    /\ pc = "Idle"
    /\ pc' = "Failed"
    /\ entry' = "route"
    /\ outcome' = [path |-> NoPath, error |-> Err("FileNotFound", None)]
    /\ UNCHANGED << text_content, parsed, lines, voice_map, idx, temp_files, fs,
                    clock, dispatched, handed, function_vars, server_vars >>

\* synthesize(): text.txt is read (lines 250-251).
RouteStart ==
    /\ pc = "Idle"
    /\ \E t \in Texts : text_content' = t
    /\ pc' = "Parsing"
    /\ entry' = "route"
    /\ UNCHANGED << parsed, lines, voice_map, idx, temp_files, fs, clock, outcome,
                    dispatched, handed, function_vars, server_vars >>

\* synthesize(): parse, the empty check and the voice map (lines 252-260).
RouteParse ==
    /\ pc = "Parsing"
    /\ LET res == parse_text_content(text_content)
           vm  == RouteVoiceMap
       IN  /\ parsed' = res
           /\ IF ~res.ok
              THEN /\ Fail(res.exc)
                   /\ UNCHANGED << lines, voice_map, idx >>
              ELSE IF NoLines(res.lines)
              THEN /\ pc' = "Failed"
                   /\ outcome' = [path |-> NoPath, error |-> Err("NoData", None)]
                   /\ UNCHANGED << lines, voice_map, idx >>
              ELSE IF ~vm.ok
              THEN /\ Fail(vm.exc)
                   /\ lines' = res.lines
                   /\ UNCHANGED << voice_map, idx >>
              ELSE /\ pc' = "Synthesizing"
                   /\ lines' = res.lines
                   /\ voice_map' = vm.map
                   /\ idx' = 1
                   /\ UNCHANGED outcome
    /\ UNCHANGED << text_content, entry, temp_files, fs, clock, dispatched, handed,
                    function_vars, server_vars >>

\* synthesize_dialogue(ls, vm) called directly; voice_map=None builds the
\* default map first (lines 129-135).
DirectCallOf(dialogues, voice_maps) ==
    /\ pc = "Idle"
    /\ entry' = "direct"
    /\ \E ls \in dialogues, vm \in voice_maps :
          /\ lines' = ls
          /\ IF vm.given
             THEN /\ voice_map' = vm
                  /\ pc' = "Synthesizing"
                  /\ idx' = 1
                  /\ UNCHANGED outcome
             ELSE IF DefaultVoiceMap.ok
             THEN /\ voice_map' = DefaultVoiceMap.map
                  /\ pc' = "Synthesizing"
                  /\ idx' = 1
                  /\ UNCHANGED outcome
             ELSE /\ pc' = "Failed"
                  /\ outcome' = [ path  |-> NoPath,
                                  error |-> Err("Raised", DefaultVoiceMap.exc) ]
                  /\ UNCHANGED << voice_map, idx >>
    /\ UNCHANGED << text_content, parsed, temp_files, fs, clock, dispatched, handed,
                    function_vars, server_vars >>

DirectCall == DirectCallOf(Dialogues, VoiceMaps)

\* One iteration of the loop of synthesize_dialogue (lines 136-157), the
\* call of synthesize_text_with_google (lines 68-104) included.  The
\* service answers or raises; the call takes a whole number of milliseconds,
\* possibly none.
SynthLine ==
    /\ pc = "Synthesizing"
    /\ idx <= Len(lines)
    /\ LET line    == lines[idx]
           cleaned == clean_text(line.text)
           params  == validate_synthesis_params(
                          [ speed |-> Get(line, "speed", DefaultSpeed),
                            pitch |-> Get(line, "pitch", DefaultPitch) ])
           look    == VoiceLookup(voice_map.items, Get(line, "id", 0))
           request == Request(cleaned, look.voice, params.speed, params.pitch)
       IN  IF cleaned = <<>>
           THEN /\ idx' = idx + 1
                /\ UNCHANGED << pc, outcome, temp_files, fs, clock, dispatched >>
           ELSE IF ~look.ok
           THEN /\ Fail(look.exc)
                /\ UNCHANGED << idx, temp_files, fs, clock, dispatched >>
           ELSE \E answer \in {"ok", "raise"}, took \in {0, 1} :
                   LET now == clock + took
                       tmp == TempPath(now)
                   IN  /\ clock' = now
                       /\ idx' = idx + 1
                       /\ dispatched' = Append(dispatched,
                              [ line    |-> idx,
                                request |-> request,
                                ok      |-> answer = "ok",
                                path    |-> IF answer = "ok" THEN tmp ELSE NoPath ])
                       /\ IF answer = "ok"
                          THEN /\ fs' = WriteFile(fs, tmp, ResponseAudio(request))
                               /\ temp_files' = Append(temp_files, tmp)
                          ELSE UNCHANGED << fs, temp_files >>
                       /\ UNCHANGED << pc, outcome >>
    /\ UNCHANGED << text_content, parsed, entry, lines, voice_map, handed,
                    function_vars, server_vars >>

\* After the loop (lines 159-164): nothing synthesized, or on to the merge.
SynthEnd ==
    /\ pc = "Synthesizing"
    /\ idx > Len(lines)
    /\ IF NothingSynthesized(temp_files)
       THEN /\ pc' = "Failed"
            /\ outcome' = [path |-> NoPath, error |-> Err("SynthesisFailed", None)]
       ELSE /\ pc' = "Combining"
            /\ UNCHANGED outcome
    /\ UNCHANGED << text_content, parsed, entry, lines, voice_map, idx, temp_files,
                    fs, clock, dispatched, handed, function_vars, server_vars >>

\* The merge, the removal of the clips and the return (lines 163-174).
Combine ==
    /\ pc = "Combining"
    /\ \E disk \in {"ok", "enospc"} :
          LET output_path == generate_filename(clock)
              clips == [i \in 1..Len(temp_files) |-> ReadFile(fs, temp_files[i])]
              res   == combine_wav_files(clips, disk)
              fs1   == IF res.out.written
                       THEN WriteFile(fs, output_path, res.out.file)
                       ELSE fs
          IN  /\ handed' = Append(handed, clips)
              /\ IF res.ok
                 THEN /\ fs' = RemoveAll(fs1, temp_files)
                      /\ pc' = "Done"
                      /\ outcome' = [path |-> output_path, error |-> NoError]
                 ELSE /\ fs' = fs1
                      /\ Fail(res.exc)
    /\ UNCHANGED << text_content, parsed, entry, lines, voice_map, idx, temp_files,
                    clock, dispatched, function_vars, server_vars >>

Next ==
    \/ RouteNoFile
    \/ RouteStart
    \/ RouteParse
    \/ DirectCall
    \/ SynthLine
    \/ SynthEnd
    \/ Combine

Spec == Init /\ [][Next]_vars

\* The invocation has ended.
Terminal == pc \in {"Done", "Failed"}

(***************************************************************************)
(* SpecServer: the calls of synthesize_dialogue one process makes, one     *)
(* after the other, on the same filesystem and clock.  When a call has     *)
(* returned or raised, the caller keeps the artifact it was given and      *)
(* makes its next call, at once or a second later.                         *)
(***************************************************************************)
MaxEarlier == 1

ServerDialogues ==
    { << [text |-> <<"x">>, id |-> 0, speed |-> 100, pitch |-> 0] >>,
      << [text |-> <<"y">>] >>,
      << [text |-> <<"x">>, id |-> 0, speed |-> 100, pitch |-> 0],
         [text |-> <<"y">>] >> }

ServerVoiceMaps ==
    { VoiceMapOf(<< <<0, "ja-JP-Wavenet-A">>, <<1, "ja-JP-Wavenet-B">> >>) }

ServerCall == DirectCallOf(ServerDialogues, ServerVoiceMaps)

\* return output_path, None / return None, message / an exception (lines
\* 160, 165, 174): the call is over and the next one can be made.
Return ==
    /\ Terminal
    /\ calls < MaxEarlier
    /\ calls' = calls + 1
    /\ artifacts' =
          IF pc = "Done"
          THEN artifacts \cup { [ path    |-> outcome.path,
                                  content |-> ReadFile(fs, outcome.path) ] }
          ELSE artifacts
    /\ \E gap \in {0, MsPerSecond} : clock' = clock + gap
    /\ pc' = "Idle"
    /\ entry' = "none"
    /\ lines' = <<>>
    /\ voice_map' = NoVoiceMap
    /\ idx' = 0
    /\ temp_files' = <<>>
    /\ outcome' = NoOutcome
    /\ dispatched' = <<>>
    /\ handed' = <<>>
    /\ UNCHANGED << text_content, parsed, fs, function_vars >>

NextServer ==
    \/ ServerCall
    \/ SynthLine
    \/ SynthEnd
    \/ Combine
    \/ Return

SpecServer == Init /\ [][NextServer]_vars

(***************************************************************************)
(* Vocabulary of the properties of parse_text_content: the non-blank lines *)
(* of the input, the speaker blocks they form, and what each block holds.  *)
(***************************************************************************)
IsNonEmpty(l) == l # <<>>

\* The stripped non-blank lines of a text, in order.
NonBlankLines(text) ==
    LET raws == splitlines(text)
    IN  SelectSeq([i \in 1..Len(raws) |-> Strip(raws[i])], IsNonEmpty)

IsTagLine(l) == Head(l) \in {"[dansei]", "[josei]"}

\* A line that starts with the speed or the pitch prefix.
StartsWithDirectivePrefix(l) == Head(l) \in {"sokudo:", "pitch:"}

\* A line the directive patterns match: the prefix, optional whitespace, and
\* at least one character of the number class.
IsDirectiveLine(l) == speed_match(l).matched \/ pitch_match(l).matched

IsBodyLine(l) == ~IsTagLine(l) /\ ~IsDirectiveLine(l)

KeepNonPrefix(l) == ~StartsWithDirectivePrefix(l)

KeepNonDirective(l) == ~IsDirectiveLine(l)

TagPositions(nb) == { i \in 1..Len(nb) : IsTagLine(nb[i]) }

\* The position after the last line of the block opened at p.
BlockEnd(nb, p) ==
    LET later == { q \in TagPositions(nb) : q > p }
    IN  IF later = {} THEN Len(nb) + 1
        ELSE CHOOSE q \in later : \A r \in later : q <= r

BlockLines(nb, p) == (p + 1)..(BlockEnd(nb, p) - 1)

BlockBodies(nb, p) == { j \in BlockLines(nb, p) : IsBodyLine(nb[j]) }

\* The elements of a finite set of numbers in increasing order.
RECURSIVE Ascending(_)
Ascending(S) ==
    IF S = {} THEN <<>>
    ELSE LET m == CHOOSE x \in S : \A y \in S : x <= y
         IN  <<m>> \o Ascending(S \ {m})

\* The blocks with at least one body line, in document order.
BlocksWithBody(nb) ==
    Ascending({ p \in TagPositions(nb) : BlockBodies(nb, p) # {} })

LabelId(tag) == IF Head(tag) = "[dansei]" THEN 0 ELSE 1

BlockText(nb, p) ==
    LET js == Ascending(BlockBodies(nb, p))
    IN  Join(<<" ">>, [k \in 1..Len(js) |-> nb[js[k]]])

\* The value of the last speed (pitch) directive of a block, else 1.0 (0.0).
LastSpeed(nb, p) ==
    LET ds == { j \in BlockLines(nb, p) : speed_match(nb[j]).matched }
    IN  IF ds = {} THEN 100
        ELSE LET j == CHOOSE x \in ds : \A y \in ds : y <= x
             IN  FloatValue(speed_match(nb[j]).group)

LastPitch(nb, p) ==
    LET ds == { j \in BlockLines(nb, p) : pitch_match(nb[j]).matched }
    IN  IF ds = {} THEN 0
        ELSE LET j == CHOOSE x \in ds : \A y \in ds : y <= x
             IN  FloatValue(pitch_match(nb[j]).group)

Parsed == parsed # NotParsed

TextsAndIds(ls) == [i \in 1..Len(ls) |-> <<ls[i].text, ls[i].id>>]

Contains(s, c) == \E i \in 1..Len(s) : s[i] = c

(***************************************************************************)
(* C2.  A male block with body text followed by a female block with body   *)
(* text, no directives: parse_text_content returns, without raising,       *)
(* exactly two lines, the first with the id of the male label (0), the     *)
(* second with the id of the female label (1), each with speed 1.0 and     *)
(* pitch 0.0.                                                              *)
(***************************************************************************)
IsTwoSpeakerScenario(nb) ==
    /\ Len(nb) = 4
    /\ nb[1] = <<"[dansei]">>
    /\ ~IsTagLine(nb[2]) /\ ~StartsWithDirectivePrefix(nb[2])
    /\ nb[3] = <<"[josei]">>
    /\ ~IsTagLine(nb[4]) /\ ~StartsWithDirectivePrefix(nb[4])

C2_TwoSpeakerScenario ==
    LET nb == NonBlankLines(text_content)
    IN  (Parsed /\ IsTwoSpeakerScenario(nb)) =>
            /\ parsed.ok
            /\ parsed.lines =
                 << [text |-> nb[2], id |-> 0, pitch |-> 0, speed |-> 100],
                    [text |-> nb[4], id |-> 1, pitch |-> 0, speed |-> 100] >>

(***************************************************************************)
(* C3.  For a well-formed input of N speaker blocks, each with at least    *)
(* one body line, and no directive lines, parse_text_content returns       *)
(* exactly N lines and the i-th line is the i-th block of the document.    *)
(***************************************************************************)
WellFormedNoDirectives(nb) ==
    /\ \A i \in 1..Len(nb) : ~StartsWithDirectivePrefix(nb[i])
    /\ \A i \in TagPositions(nb) : Len(nb[i]) = 1 /\ BlockBodies(nb, i) # {}
    /\ nb # <<>> => IsTagLine(nb[1])

C3_NBlocksInDocumentOrder ==
    LET nb   == NonBlankLines(text_content)
        tags == Ascending(TagPositions(nb))
    IN  (Parsed /\ WellFormedNoDirectives(nb)) =>
            /\ parsed.ok
            /\ Len(parsed.lines) = Len(tags)
            /\ \A i \in 1..Len(tags) :
                  /\ parsed.lines[i].id = LabelId(nb[tags[i]])
                  /\ parsed.lines[i].text = BlockText(nb, tags[i])

(***************************************************************************)
(* C4 as stated.  A line that starts with the speed prefix or the pitch    *)
(* prefix never becomes part of the text of a returned line and never      *)
(* increases the number of returned lines: the returned texts hold neither *)
(* prefix, and the input without those lines yields at least as many       *)
(* lines.                                                                  *)
(***************************************************************************)
C4_PrefixLinesNeverText ==
    LET nb      == NonBlankLines(text_content)
        without == ParseLines(SelectSeq(nb, KeepNonPrefix))
    IN  (Parsed /\ parsed.ok) =>
            /\ \A i \in 1..Len(parsed.lines) :
                  /\ ~Contains(parsed.lines[i].text, "sokudo:")
                  /\ ~Contains(parsed.lines[i].text, "pitch:")
            /\ Len(parsed.lines) <= Len(without.lines)

(***************************************************************************)
(* C4 amended.  A line that one of the directive patterns matches (the     *)
(* prefix, optional whitespace, then at least one character of the number  *)
(* class) never becomes part of the text of a returned line and never      *)
(* counts as a line: the input without those lines yields the same texts   *)
(* and speakers, in the same number, and every returned text is the join   *)
(* of body lines only.                                                     *)
(***************************************************************************)
C4_DirectiveLinesNeverText ==
    LET nb      == NonBlankLines(text_content)
        without == ParseLines(SelectSeq(nb, KeepNonDirective))
        blocks  == BlocksWithBody(nb)
    IN  (Parsed /\ parsed.ok) =>
            /\ without.ok
            /\ TextsAndIds(parsed.lines) = TextsAndIds(without.lines)
            /\ Len(parsed.lines) = Len(blocks)
            /\ \A i \in 1..Len(blocks) :
                  parsed.lines[i].text = BlockText(nb, blocks[i])

\* A call that returned a line from a block holding a speed and a pitch
\* directive.
C4_Witness ==
    LET nb == NonBlankLines(text_content)
    IN  /\ Parsed /\ parsed.ok
        /\ Len(parsed.lines) = 1
        /\ \E i, j \in 1..Len(nb) :
              /\ speed_match(nb[i]).matched
              /\ pitch_match(nb[j]).matched
              /\ IsTagLine(nb[1]) /\ i > 1 /\ j > 1

C6_ParserNeverRaises ==
    LET nb == NonBlankLines(text_content)
    IN  Parsed =>
            /\ parsed.ok
            /\ TagPositions(nb) = {} => parsed.lines = <<>>

(***************************************************************************)
(* Vocabulary of the properties of the pipeline.                           *)
(***************************************************************************)
IsOk(d) == d.ok

\* The backend calls that answered, in the order they were made.
Succeeded == SelectSeq(dispatched, IsOk)

AllDispatchedFailed == \A i \in 1..Len(dispatched) : ~dispatched[i].ok

(***************************************************************************)
(* C1.  An invocation through POST /synthesize follows                     *)
(* Idle -> Parsing -> Synthesizing -> Combining and ends in exactly one of *)
(* Done (artifact path, no error) and Failed (error, no path): once        *)
(* parsing has yielded at least one line the invocation is synthesizing,   *)
(* combining or done, and it has failed only if every line's synthesis     *)
(* failed or the combine failed; with a line synthesized and the combine   *)
(* succeeded it is Done with an artifact path.                             *)
(***************************************************************************)
C1_PipelineStateMachine ==
    entry = "route" =>
        /\ pc \in {"Parsing", "Synthesizing", "Combining", "Done", "Failed"}
        /\ pc = "Done" => outcome.path # NoPath /\ outcome.error = NoError
        /\ pc = "Failed" => outcome.path = NoPath /\ outcome.error # NoError
        /\ ~Terminal => outcome = NoOutcome
        /\ (pc = "Failed" /\ parsed.ok /\ parsed.lines # <<>>) =>
              \/ idx > Len(lines) /\ temp_files = <<>>
              \/ handed # <<>>
        /\ (pc = "Failed" /\ Succeeded # <<>>) =>
              handed # <<>> /\ outcome.error.exc # None

(***************************************************************************)
(* C7.  The clips handed to combine_wav_files are exactly the clips of the *)
(* lines whose synthesis succeeded, in document order; a line whose        *)
(* backend call fails is dropped and the lines around it are still         *)
(* synthesized; the artifact holds every successful clip.                  *)
(***************************************************************************)
C7_SuccessfulClipsInOrder ==
    /\ \A i \in 1..Len(handed) :
          handed[i] = [k \in 1..Len(Succeeded) |-> ResponseAudio(Succeeded[k].request)]
    /\ pc = "Done" =>
          \A k \in 1..Len(Succeeded) :
              \E j \in 1..Len(ReadFile(fs, outcome.path).data) :
                  /\ ~ReadFile(fs, outcome.path).data[j].silent
                  /\ ReadFile(fs, outcome.path).data[j].audio = Succeeded[k].request

(***************************************************************************)
(* C8.  If the synthesis of every line fails, the invocation returns the   *)
(* synthesis failure with no artifact path, combine_wav_files is never     *)
(* invoked and the output directory holds no artifact.                     *)
(***************************************************************************)
C8_AllSynthesisFailed ==
    (dispatched # <<>> /\ AllDispatchedFailed) =>
        /\ handed = <<>>
        /\ OutputFiles(fs) = {}
        /\ pc \in {"Synthesizing", "Failed"}
        /\ pc = "Failed" =>
              /\ outcome.error = Err("SynthesisFailed", None)
              /\ outcome.path = NoPath

\* An invocation that ended after the backend failed on two lines.
C8_Witness ==
    /\ pc = "Failed"
    /\ Len(dispatched) >= 2
    /\ AllDispatchedFailed
    /\ outcome.error = Err("SynthesisFailed", None)

(***************************************************************************)
(* C9.  If parsing the script yields zero lines, the invocation fails with *)
(* the no-dialogue error without any backend call, temporary clip or       *)
(* output artifact.                                                        *)
(***************************************************************************)
C9_NoDialogueFound ==
    (entry = "route" /\ Parsed /\ parsed.ok /\ parsed.lines = <<>>) =>
        /\ pc = "Failed"
        /\ outcome = [path |-> NoPath, error |-> Err("NoData", None)]
        /\ dispatched = <<>>
        /\ handed = <<>>
        /\ fs = {}

\* An invocation on a script with body text and no speaker tag.
C9_Witness ==
    /\ entry = "route" /\ Parsed /\ parsed.ok /\ parsed.lines = <<>>
    /\ pc = "Failed"
    /\ \E i \in 1..Len(NonBlankLines(text_content)) :
          IsBodyLine(NonBlankLines(text_content)[i])
    /\ TagPositions(NonBlankLines(text_content)) = {}

(***************************************************************************)
(* Vocabulary of the properties of combine_wav_files.                      *)
(***************************************************************************)
Combined == combined # NotCombined

RECURSIVE SumFrames(_)
SumFrames(files) ==
    IF files = <<>> THEN 0 ELSE getnframes(Head(files)) + SumFrames(Tail(files))

\* Every file has the first file's channel count and sample width.
SameFormat(files) ==
    \A i \in 1..Len(files) :
        /\ files[i].nchannels = files[1].nchannels
        /\ files[i].sampwidth = files[1].sampwidth

SameRate(files) ==
    \A i \in 1..Len(files) : files[i].framerate = files[1].framerate

\* floor(0.5 x frame_rate) zero frames in the first file's format.
HalfSecond(first) ==
    [ silent |-> TRUE,
      audio  |-> "silence",
      nbytes |-> (first.framerate \div 2) * first.nchannels * first.sampwidth ]

\* File 1, silence, file 2, silence, ..., file k.
Interleaved(files) ==
    [ j \in 1..(2 * Len(files) - 1) |->
        IF j % 2 = 1 THEN files[(j + 1) \div 2].data[1] ELSE HalfSecond(files[1]) ]

FramesAsClaimed(files, out) ==
    /\ out.data = Interleaved(files)
    /\ getnframes(out) =
           SumFrames(files) + (Len(files) - 1) * (files[1].framerate \div 2)

C11_FormatMismatchRejected ==
    (Combined /\ wav_files # <<>> /\ AllWav(wav_files) /\ ~SameFormat(wav_files)) =>
        /\ ~combined.ok
        /\ combined.exc = "FormatMismatch"
        /\ ~combined.out.written

(***************************************************************************)
(* C12.  Once an invocation has ended, Done or Failed, no temporary clip    *)
(* file it wrote still exists.                                             *)
(***************************************************************************)
C12_NoTempFileSurvives ==
    Terminal =>
        \A i \in 1..Len(dispatched) :
            dispatched[i].ok => ~Exists(fs, dispatched[i].path)

(***************************************************************************)
(* get_audio (lines 271-277): the response to GET /audio/<filename> for    *)
(* the file fp names under the output directory.                           *)
(***************************************************************************)
get_audio(files, fp) ==
    IF ~Exists(files, fp)
    THEN [status |-> 404, body |-> NotWav]
    ELSE [status |-> 200, body |-> ReadFile(files, fp)]

(***************************************************************************)
(* C13.  If the merge fails, then once the invocation has ended nothing    *)
(* is left under the output directory, GET /audio/<name> does not serve    *)
(* the output path, and the invocation does not report success.            *)
(***************************************************************************)
C13_NoPartialArtifact ==
    (pc = "Failed" /\ handed # <<>>) =>
        /\ OutputFiles(fs) = {}
        /\ get_audio(fs, generate_filename(clock)).status = 404
        /\ outcome.path = NoPath
        /\ outcome.error # NoError

(***************************************************************************)
(* C14.  The temporary clips of an invocation have pairwise distinct       *)
(* paths: no clip is written over one that is still to be merged.          *)
(***************************************************************************)
C14_TempPathsDistinct ==
    \A i, j \in 1..Len(temp_files) :
        i # j => temp_files[i] # temp_files[j]

Min2(a, b) == IF a <= b THEN a ELSE b

Max2(a, b) == IF a >= b THEN a ELSE b

\* The speed and pitch of a line as synthesize_dialogue reads them.
LineParams(line) ==
    [ speed |-> Get(line, "speed", DefaultSpeed),
      pitch |-> Get(line, "pitch", DefaultPitch) ]

InRange(v, lo, hi) == lo <= v /\ v <= hi

(***************************************************************************)
(* C16.  Every backend call is made with the speaking rate                 *)
(* min(max(speed, 0.25), 4.0) and the pitch min(max(pitch, -20), 20) of    *)
(* its line: a value in range goes through unchanged, a value out of range *)
(* becomes the nearer bound, and validating the validated parameters       *)
(* changes nothing.                                                        *)
(***************************************************************************)
C16_ParamsClamped ==
    \A i \in 1..Len(dispatched) :
        LET given == LineParams(lines[dispatched[i].line])
            sent  == dispatched[i].request
            valid == validate_synthesis_params(given)
        IN  /\ sent.rate = Min2(Max2(given.speed, 25), 400)
            /\ sent.pitch = Min2(Max2(given.pitch, -2000), 2000)
            /\ InRange(given.speed, 25, 400) => sent.rate = given.speed
            /\ InRange(given.pitch, -2000, 2000) => sent.pitch = given.pitch
            /\ InRange(sent.rate, 25, 400)
            /\ InRange(sent.pitch, -2000, 2000)
            /\ validate_synthesis_params(valid) = valid
            /\ valid = [speed |-> sent.rate, pitch |-> sent.pitch]

\* Calls were made for a line above both ranges' ends on one side, one
\* beyond them on the other side and one within both.
C16_Witness ==
    /\ \E i \in 1..Len(dispatched) :
          /\ LineParams(lines[dispatched[i].line]).speed > 400
          /\ LineParams(lines[dispatched[i].line]).pitch < -2000
          /\ dispatched[i].request.rate = 400
          /\ dispatched[i].request.pitch = -2000
    /\ \E i \in 1..Len(dispatched) :
          /\ LineParams(lines[dispatched[i].line]).speed < 25
          /\ LineParams(lines[dispatched[i].line]).pitch > 2000
          /\ dispatched[i].request.rate = 25
          /\ dispatched[i].request.pitch = 2000
    /\ \E i \in 1..Len(dispatched) :
          /\ "speed" \notin DOMAIN lines[dispatched[i].line]
          /\ dispatched[i].request.rate = 100
          /\ dispatched[i].request.pitch = 0

\* The speaker id of a line as synthesize_dialogue reads it.
LineSpeaker(line) == Get(line, "id", 0)

\* A direct call ended by an exception raised before any merge: building
\* the default voice map or looking a speaker up.
LookupRaised ==
    /\ entry = "direct"
    /\ pc = "Failed"
    /\ handed = <<>>
    /\ outcome.error.tag = "Raised"

(***************************************************************************)
(* C17.  In synthesize_dialogue a line whose speaker id is a key of the    *)
(* voice map is synthesized with the mapped voice, a line whose speaker id *)
(* is not a key with the first entry of the map, and no call ends in an    *)
(* error of the lookup, whatever the voice map: given, None or empty.      *)
(***************************************************************************)
C17_VoiceLookupNeverFails ==
    /\ \A i \in 1..Len(dispatched) :
          LET sid   == LineSpeaker(lines[dispatched[i].line])
              voice == dispatched[i].request.voice
              items == voice_map.items
          IN  /\ items # <<>>
              /\ HasKey(items, sid) =>
                    \E k \in 1..Len(items) : items[k] = <<sid, voice>>
              /\ ~HasKey(items, sid) => voice = items[1][2]
    /\ ~LookupRaised

\* The merge was called and the invocation has failed.
CombineFailed == pc = "Failed" /\ handed # <<>>

(***************************************************************************)
(* C18.  A failed merge ends the invocation in a failure whose tag names   *)
(* the merge stage (MergeFailed or FormatMismatch) and which carries a     *)
(* message; no failure of another stage carries one of these tags.         *)
(***************************************************************************)
C18_CombineFailureNamesStage ==
    /\ CombineFailed =>
          /\ outcome.path = NoPath
          /\ outcome.error.tag \in {"MergeFailed", "FormatMismatch"}
          /\ outcome.error.exc # None
    /\ (pc = "Failed" /\ handed = <<>>) =>
          outcome.error.tag \notin {"MergeFailed", "FormatMismatch"}

\* A text without a leading line marker.
StripMarker(text) ==
    IF text # <<>> /\ Head(text) = "serifu:" THEN Tail(text) ELSE text

CleansToEmpty(line) == Strip(StripMarker(line.text)) = <<>>

\* The first body line of the block opened at p.
FirstBody(nb, p) == nb[Ascending(BlockBodies(nb, p))[1]]

(***************************************************************************)
(* C19.  parse_text_content returns a line whose block starts with the     *)
(* line marker with the marker still in its text; synthesize_dialogue      *)
(* sends the text without the marker and without surrounding whitespace;   *)
(* a line whose text is empty after that is skipped, with no backend call  *)
(* and no clip; and an invocation all of whose lines are such lines ends   *)
(* in the synthesis failure, with no artifact.                             *)
(***************************************************************************)
C19_CleaningIsSeparatePass ==
    LET nb     == NonBlankLines(text_content)
        blocks == BlocksWithBody(nb)
    IN  /\ (Parsed /\ parsed.ok) =>
              \A i \in 1..Len(parsed.lines) :
                  /\ i <= Len(blocks)
                  /\ Head(FirstBody(nb, blocks[i])) = "serifu:" =>
                        Head(parsed.lines[i].text) = "serifu:"
        /\ \A i \in 1..Len(dispatched) :
              /\ dispatched[i].request.text =
                    Strip(StripMarker(lines[dispatched[i].line].text))
              /\ dispatched[i].request.text # <<>>
        /\ \A k \in 1..Len(lines) :
              CleansToEmpty(lines[k]) =>
                  \A i \in 1..Len(dispatched) : dispatched[i].line # k
        /\ ( /\ Terminal
             /\ lines # <<>>
             /\ \A k \in 1..Len(lines) : CleansToEmpty(lines[k]) ) =>
              /\ outcome = [path |-> NoPath, error |-> Err("SynthesisFailed", None)]
              /\ dispatched = <<>>
              /\ fs = {}

(***************************************************************************)
(* C20.  For every input parse_text_content returns one line for each      *)
(* speaker block with at least one body line, in order, and none for a     *)
(* block without; the text of a line is the non-blank body lines of its    *)
(* block, in order, joined with one space, so that neither a blank line    *)
(* nor a body line before the first speaker tag is in any text.            *)
(***************************************************************************)
C20_OneLinePerBlockWithBody ==
    LET nb     == NonBlankLines(text_content)
        blocks == BlocksWithBody(nb)
    IN  Parsed =>
            /\ parsed.ok
            /\ Len(parsed.lines) = Len(blocks)
            /\ \A i \in 1..Len(blocks) :
                  parsed.lines[i].text = BlockText(nb, blocks[i])

(***************************************************************************)
(* C15.  The output directory is append-only over the calls of a process:  *)
(* a successful call returns a path no earlier call returned, and an       *)
(* artifact an earlier call returned is still there, with the content it   *)
(* had when it was returned.                                               *)
(***************************************************************************)
C15_OutputAppendOnly ==
    /\ pc = "Done" => \A a \in artifacts : a.path # outcome.path
    /\ \A a \in artifacts :
          /\ Exists(fs, a.path)
          /\ ReadFile(fs, a.path) = a.content

====
